---- MODULE Spec2Model ----
(***************************************************************************)
(* A model of the three browser scripts of the data-exploration client:    *)
(*   - the dashboard script   (state, loadPage, fetchOptions, ...),        *)
(*   - the calls list         (callState, loadCalls, ...),                 *)
(*   - the call detail page   (getParam, loadCall, ...).                   *)
(* Each script runs in its own document; `doc` says which one is loaded.   *)
(* Every event handler runs to its first await as one step; the part after *)
(* the await runs as one step when the response is delivered.  Responses   *)
(* are delivered in any order and each one either succeeds or fails.       *)
(***************************************************************************)
EXTENDS Integers, Sequences, FiniteSets, TLC

VARIABLES
    doc,                \* which document is loaded: "dashboard", "calls", "call"
    state,              \* dashboard: the `state` object
    elements,           \* dashboard: what the DOM nodes of `elements` hold
    lastColumns,        \* dashboard: the `lastColumns` module variable
    graphNetwork,       \* dashboard: the data of the vis.Network, or NoGraph
    graphShown,         \* history: the query whose response the graph shows
    shown,              \* history: the query string whose response the table displays
    appliedSinceChange, \* history: applyFilters has run since the dataset was last set
    callState,          \* calls list: the `callState` object
    callElements,       \* calls list: what the DOM nodes of `callElements` hold
    callShown,          \* history: the query string whose rows the calls table displays
    detail,             \* call detail page: the id parameter and the rendered sections
    inflight,           \* requests sent and not yet answered, in issue order
    clicks,             \* history: the number of user actions so far
    lastEvent           \* history: the handler that ran last, and what it did

vars == <<doc, state, elements, lastColumns, graphNetwork, graphShown, shown, appliedSinceChange,
          callState, callElements, callShown, detail, inflight, clicks, lastEvent>>

dashVars == <<state, elements, lastColumns, graphNetwork, graphShown, shown, appliedSinceChange>>
callsVars == <<callState, callElements, callShown>>

----------------------------------------------------------------------------
(* Bounds of the model *)

\* requests that may be in flight at once
MaxInflight == 3
\* user actions in one run
MaxClicks == 2
\* rows of dataset "A", of dataset "B", and of any filtered selection of a dataset
RowsA == 30
RowsB == 60
RowsFiltered == 10
\* sample calls in all, and in a filtered selection
CallsAll == 25
CallsFiltered == 5
\* the grid on which computeTotalPages is compared with max(1, ceil(total/pageSize))
MaxTotal == 12
MaxPageSize == 5
\* the rows of a page the user clicks: the first MaxRowClick
MaxRowClick == 2

----------------------------------------------------------------------------
(* JavaScript values *)

\* null, as a string-typed value (state.dataset, a missing URL parameter)
NULL == "<null>"
\* undefined, as a number-typed value (state.total and callState.maxPage before
\* the first response)
UNDEFINED == -1

Range(s) == {s[i] : i \in DOMAIN s}
Max(a, b) == IF a >= b THEN a ELSE b
Min(a, b) == IF a <= b THEN a ELSE b

\* truthiness of a string-or-null value: `if (s)`, `!s`
TruthyStr(s) == s # "" /\ s # NULL
\* `n || d` on a number-or-undefined value
OrNum(n, d) == IF n = UNDEFINED \/ n = 0 THEN d ELSE n

\* String(n), and the server's reading of a decimal parameter
String(n) == ToString(n)
ParseInt(s) == CHOOSE n \in 0..99 : ToString(n) = s

\* String.prototype.trim on the values a text input holds in the model
Trim(s) ==
    CASE s = " "   -> ""
      [] s = " x " -> "x"
      [] s = " Tech " -> "Tech"
      [] OTHER     -> s

\* Math.ceil(a / b) for a >= 0, b > 0
MathCeilDiv(a, b) == IF a % b = 0 THEN a \div b ELSE (a \div b) + 1

\* a mutant of computeTotalPages: Math.floor in place of Math.ceil
computeTotalPages_floor(total, pageSize) == Max(1, total \div pageSize)

computeTotalPages(total, pageSize) == Max(1, MathCeilDiv(total, pageSize))

----------------------------------------------------------------------------
(* URLSearchParams: an ordered list of <<key, value>> pairs.  toString()    *)
(* percent-encodes each pair and the server decodes it again, so the list  *)
(* itself stands for the query string.                                      *)

Keys(qs) == {qs[i][1] : i \in DOMAIN qs}
Has(qs, k) == k \in Keys(qs)
Get(qs, k) == IF Has(qs, k) THEN qs[CHOOSE i \in DOMAIN qs : qs[i][1] = k][2] ELSE ""
\* a mutant of AppendIf: the parameter is appended whatever its value
AppendAlways(qs, k, v) == Append(qs, <<k, v>>)

\* `if (value) params.append(key, value)`
AppendIf(qs, k, v) == IF TruthyStr(v) THEN Append(qs, <<k, v>>) ELSE qs

----------------------------------------------------------------------------
(* The HTTP endpoints, as section 6 of the specification describes them.    *)
(* The server answers from fixed data: two datasets with different columns *)
(* and ticker lists and the same quarter list.                             *)

ServerDatasets == <<"A", "B">>
ServerTickers(d) == IF d = "A" THEN <<"T1">> ELSE <<"T2">>
ServerQuarters(d) == <<"Q1">>
ServerColumns(d) ==
    IF d = "A" THEN <<"ticker", "quarter", "sentiment", "polarity", "positive_count",
                      "negative_count", "label", "pred", "future_3bday_cum_return",
                      "actual_return", "parsed_and_analyzed_facts">>
               ELSE <<"ticker", "quarter", "label">>

\* rows that match the filters of a /api/rows query
ServerTotal(qs) ==
    LET d == Get(qs, "dataset")
        filtered == Has(qs, "ticker") \/ Has(qs, "quarter") \/ Has(qs, "search")
    IN  IF Has(qs, "ticker") /\ Get(qs, "ticker") \notin Range(ServerTickers(d)) THEN 0
        ELSE IF filtered THEN RowsFiltered
        ELSE IF d = "A" THEN RowsA ELSE RowsB

\* GET /api/rows -> {columns, rows, page, page_size, total}: the requested page of
\* the matching rows; page and page_size are those of the request
RowsResponse(qs) ==
    LET d == Get(qs, "dataset")
        page == ParseInt(Get(qs, "page"))
        size == ParseInt(Get(qs, "page_size"))
        total == ServerTotal(qs)
        first == (page - 1) * size
        n == Max(0, Min(size, total - first))
    IN  [columns |-> ServerColumns(d),
         rows |-> [i \in 1..n |-> [dataset |-> d, id |-> first + i]],
         page |-> page, page_size |-> size, total |-> total]

\* GET /api/options?dataset -> {tickers, quarters}
OptionsResponse(qs) ==
    [tickers |-> ServerTickers(Get(qs, "dataset")),
     quarters |-> ServerQuarters(Get(qs, "dataset"))]

----------------------------------------------------------------------------
(* Requests and the record of the last handler *)

\* a request in flight: the endpoint, the query string, and for the history
\* whether the filters it carries were applied under the dataset it asks for
Request(api, qs, fresh) == [api |-> api, qs |-> qs, fresh |-> fresh]

\* what a handler did: its name, the requests it issued, the alerts it raised,
\* for a user action the browse state before it ran, and for a response whether
\* it answers a request issued by the handler that ran just before (then `before`
\* is still the browse state before that handler)
Event(kind, before, issued, alerts, direct) ==
    [kind |-> kind, before |-> before, issued |-> issued, alerts |-> alerts,
     direct |-> direct]

RemoveAt(s, i) == [j \in 1..(Len(s) - 1) |-> IF j < i THEN s[j] ELSE s[j + 1]]

\* the response to request i follows the handler that issued it with nothing in
\* between: a handler appends what it sends, so its requests are the last ones
Direct(i) == i > Len(inflight) - Len(lastEvent.issued)

----------------------------------------------------------------------------
(* Dashboard *)

InitState ==
    [dataset |-> NULL, page |-> 1, pageSize |-> 25, total |-> UNDEFINED,
     ticker |-> "", quarter |-> "", search |-> ""]

BlankPageInfo == [page |-> 0, totalPages |-> 0, total |-> 0]
BlankDetails == [status |-> "blank", groups |-> <<>>, summary |-> ""]

\* the DOM before any handler has written to it; the two navigation buttons may
\* start enabled or disabled
InitElements(pd, nd) ==
    [datasetOptions |-> <<>>, tickerOptions |-> <<"">>, quarterOptions |-> <<"">>,
     tableHead |-> <<>>, tableBody |-> <<>>,
     pageInfo |-> BlankPageInfo, prevDisabled |-> pd, nextDisabled |-> nd,
     rowDetails |-> <<>>, agentDetails |-> BlankDetails,
     baselineDetails |-> [status |-> "blank", list |-> <<>>]]

\* what the user can type into the search input
SearchInputs == {"", " ", " x "}

\* buildQueryString
buildQueryString(st) ==
    LET p0 == <<<<"dataset", st.dataset>>, <<"page", String(st.page)>>,
                <<"page_size", String(st.pageSize)>>>>
        p1 == AppendIf(p0, "ticker", st.ticker)
        p2 == AppendIf(p1, "quarter", st.quarter)
    IN  AppendIf(p2, "search", st.search)

\* loadPage up to its await: the requests it sends
loadPageSend(st, fresh) ==
    IF ~TruthyStr(st.dataset) THEN <<>>
    ELSE <<Request("rows", buildQueryString(st), fresh)>>

\* fetchOptions up to its await: the requests it sends
fetchOptionsSend(st) ==
    IF ~TruthyStr(st.dataset) THEN <<>>
    ELSE <<Request("options", <<<<"dataset", st.dataset>>>>, TRUE)>>

\* renderTable: the header row and the body rows, or the one placeholder row
renderTable(el, columns, rows) ==
    [el EXCEPT !.tableHead = columns,
               !.tableBody =
                   IF Len(rows) = 0
                   THEN <<[placeholder |-> "No rows found.",
                           colSpan |-> OrNum(Len(columns), 1)]>>
                   ELSE rows]

\* updatePagination
updatePagination(el, page, page_size, total) ==
    LET totalPages == computeTotalPages(total, page_size)
    IN  [el EXCEPT !.pageInfo = [page |-> page, totalPages |-> totalPages, total |-> total],
                   !.prevDisabled = (page <= 1),
                   !.nextDisabled = (page >= totalPages)]

\* renderOptions
renderOptions(options) == <<"">> \o options

Room(n) == Len(inflight) + n <= MaxInflight

\* a user action: one more click
Click == clicks < MaxClicks /\ clicks' = clicks + 1

\* the browse state before the handler that issued request i, when the response
\* follows that handler directly; the present one otherwise
Before(i, now) == IF Direct(i) THEN lastEvent.before ELSE now

\* the assignments of the datasetSelect "change" handler
changeAssign(st, d) == [st EXCEPT !.dataset = d, !.page = 1]

\* a mutant of applyAssign: state.page keeps its value
applyAssign_keepPage(st, t, q, s) ==
    [st EXCEPT !.ticker = t, !.quarter = q, !.search = Trim(s)]
\* the assignments of the applyFilters "click" handler
applyAssign(st, t, q, s) ==
    [st EXCEPT !.ticker = t, !.quarter = q, !.search = Trim(s), !.page = 1]

\* datasetSelect "change": the user picks another dataset of the list
DatasetChange(d) ==
    /\ doc = "dashboard"
    /\ Click
    /\ d \in Range(elements.datasetOptions)
    /\ d # state.dataset
    /\ Room(2)
    /\ LET st == changeAssign(state, d)
           sent == fetchOptionsSend(st) \o loadPageSend(st, FALSE)
       IN  /\ state' = st
           /\ inflight' = inflight \o sent
           /\ lastEvent' = Event("datasetChange", state, sent, <<>>, FALSE)
    /\ appliedSinceChange' = FALSE
    /\ UNCHANGED <<doc, elements, lastColumns, graphNetwork, graphShown, shown, callsVars, detail>>

\* applyFilters "click": the user picks a ticker and a quarter of the rendered
\* option lists, types a search text, and clicks
ApplyFilters(t, q, s) ==
    /\ doc = "dashboard"
    /\ Click
    /\ t \in Range(elements.tickerOptions)
    /\ q \in Range(elements.quarterOptions)
    /\ Room(1)
    /\ LET st == applyAssign(state, t, q, s)
           sent == loadPageSend(st, TRUE)
       IN  /\ state' = st
           /\ inflight' = inflight \o sent
           /\ lastEvent' = Event("applyFilters", state, sent, <<>>, FALSE)
    /\ appliedSinceChange' = TRUE
    /\ UNCHANGED <<doc, elements, lastColumns, graphNetwork, graphShown, shown, callsVars, detail>>

\* the guard of the prevPage "click" handler
prevGuard(st) == st.page > 1
\* a mutant of nextGuard: <= in place of <
nextGuard_le(st) == st.page <= computeTotalPages(OrNum(st.total, 0), st.pageSize)
\* the guard of the nextPage "click" handler
nextGuard(st) == st.page < computeTotalPages(OrNum(st.total, 0), st.pageSize)

\* prevPage "click" (a disabled button fires no click)
PrevPage ==
    /\ doc = "dashboard"
    /\ Click
    /\ ~elements.prevDisabled
    /\ Room(1)
    /\ LET st == IF prevGuard(state) THEN [state EXCEPT !.page = @ - 1] ELSE state
           sent == IF prevGuard(state)
                   THEN loadPageSend(st, appliedSinceChange) ELSE <<>>
       IN  /\ state' = st
           /\ inflight' = inflight \o sent
           /\ lastEvent' = Event("prevPage", state, sent, <<>>, FALSE)
    /\ UNCHANGED <<doc, elements, lastColumns, graphNetwork, graphShown, shown, appliedSinceChange, callsVars, detail>>

\* nextPage "click"
NextPage ==
    /\ doc = "dashboard"
    /\ Click
    /\ ~elements.nextDisabled
    /\ Room(1)
    /\ LET st == IF nextGuard(state) THEN [state EXCEPT !.page = @ + 1] ELSE state
           sent == IF nextGuard(state)
                   THEN loadPageSend(st, appliedSinceChange) ELSE <<>>
       IN  /\ state' = st
           /\ inflight' = inflight \o sent
           /\ lastEvent' = Event("nextPage", state, sent, <<>>, FALSE)
    /\ UNCHANGED <<doc, elements, lastColumns, graphNetwork, graphShown, shown, appliedSinceChange, callsVars, detail>>

\* fetchDatasets after its await, and populateDatasets
DatasetsOk(i, datasets) ==
    /\ doc = "dashboard"
    /\ inflight[i].api = "datasets"
    /\ LET st == IF Len(datasets) = 0 THEN state
                 ELSE [state EXCEPT !.dataset = datasets[1]]
           sent == IF Len(datasets) = 0 THEN <<>>
                   ELSE fetchOptionsSend(st) \o loadPageSend(st, FALSE)
       IN  /\ state' = st
           /\ elements' = [elements EXCEPT !.datasetOptions = datasets]
           /\ inflight' = RemoveAt(inflight, i) \o sent
           /\ lastEvent' = Event("datasetsOk", st, sent, <<>>, Direct(i))
    /\ appliedSinceChange' = IF Len(datasets) = 0 THEN appliedSinceChange ELSE FALSE
    /\ UNCHANGED <<doc, lastColumns, graphNetwork, graphShown, shown, callsVars, detail, clicks>>

DatasetsFail(i) ==
    /\ doc = "dashboard"
    /\ inflight[i].api = "datasets"
    /\ inflight' = RemoveAt(inflight, i)
    /\ lastEvent' = Event("datasetsFail", Before(i, state), <<>>,
                          <<"Failed to load datasets: 500">>, Direct(i))
    /\ UNCHANGED <<doc, dashVars, callsVars, detail, clicks>>

\* fetchOptions after its await
OptionsOk(i) ==
    /\ doc = "dashboard"
    /\ inflight[i].api = "options"
    /\ LET data == OptionsResponse(inflight[i].qs)
       IN  /\ elements' = [elements EXCEPT
                              !.tickerOptions = renderOptions(data.tickers),
                              !.quarterOptions = renderOptions(data.quarters)]
           /\ state' = [state EXCEPT !.ticker = "", !.quarter = ""]
    /\ inflight' = RemoveAt(inflight, i)
    /\ lastEvent' = Event("optionsOk", state', <<>>, <<>>, Direct(i))
    /\ UNCHANGED <<doc, lastColumns, graphNetwork, graphShown, shown, appliedSinceChange, callsVars, detail, clicks>>

\* fetchOptions, the catch branch: console.error and nothing else
OptionsFail(i) ==
    /\ doc = "dashboard"
    /\ inflight[i].api = "options"
    /\ inflight' = RemoveAt(inflight, i)
    /\ lastEvent' = Event("optionsFail", Before(i, state), <<>>, <<>>, Direct(i))
    /\ UNCHANGED <<doc, dashVars, callsVars, detail, clicks>>

\* a mutant of syncState: total and pageSize keep what the client held
syncState_keepTotal(st, data) == [st EXCEPT !.page = data.page]
\* loadPage after its await: page, pageSize and total are taken from the response
syncState(st, data) ==
    [st EXCEPT !.page = data.page, !.pageSize = data.page_size, !.total = data.total]

\* loadPage after its await
RowsOk(i) ==
    /\ doc = "dashboard"
    /\ inflight[i].api = "rows"
    /\ LET data == RowsResponse(inflight[i].qs)
       IN  /\ state' = syncState(state, data)
           /\ lastColumns' = data.columns
           /\ elements' = updatePagination(renderTable(elements, data.columns, data.rows),
                                           data.page, data.page_size, data.total)
    /\ shown' = inflight[i].qs
    /\ inflight' = RemoveAt(inflight, i)
    /\ lastEvent' = Event("rowsOk", state', <<>>, <<>>, Direct(i))
    /\ UNCHANGED <<doc, graphNetwork, graphShown, appliedSinceChange, callsVars, detail, clicks>>

\* loadPage, the catch branch
RowsFail(i) ==
    /\ doc = "dashboard"
    /\ inflight[i].api = "rows"
    /\ inflight' = RemoveAt(inflight, i)
    /\ lastEvent' = Event("rowsFail", Before(i, state), <<>>,
                          <<"Request failed: 500">>, Direct(i))
    /\ UNCHANGED <<doc, dashVars, callsVars, detail, clicks>>


\* a node of /api/graph without properties
NoProps == [ticker |-> "", symbol |-> "", metric |-> "", quarter |-> ""]

\* GET /api/graph?[ticker]&limit -> {nodes, edges}
GraphResponse(qs) ==
    IF Has(qs, "ticker")
    THEN [nodes |-> <<[id |-> "n1", labels |-> <<"Company">>,
                       properties |-> [NoProps EXCEPT !.ticker = Get(qs, "ticker"),
                                                      !.symbol = "S"]]>>,
          edges |-> <<>>]
    ELSE [nodes |-> <<[id |-> "n1", labels |-> <<"Company">>,
                       properties |-> [NoProps EXCEPT !.symbol = "S"]],
                      [id |-> "n2", labels |-> <<>>, properties |-> NoProps],
                      [id |-> "n3", labels |-> <<"Metric", "Fact">>,
                       properties |-> [NoProps EXCEPT !.metric = "EPS", !.quarter = "Q1"]],
                      [id |-> "n4", labels |-> <<"Quarter">>,
                       properties |-> [NoProps EXCEPT !.quarter = "Q1"]],
                      [id |-> "n5", labels |-> <<"Tag">>, properties |-> NoProps]>>,
          edges |-> <<[id |-> "e1", source |-> "n1", target |-> "n2", type |-> ""],
                      [id |-> "e2", source |-> "n1", target |-> "n3",
                       type |-> "REPORTS"]>>]

\* replaced is TRUE once setData has run on the network
NoGraph == [nodes |-> <<>>, edges |-> <<>>, created |-> FALSE, replaced |-> FALSE]

\* a || b on strings
OrStr(a, b) == IF TruthyStr(a) THEN a ELSE b

\* n.labels && n.labels[0]
firstTag(n) == IF Len(n.labels) > 0 THEN n.labels[1] ELSE ""

\* a mutant of nodeLabel: the symbol is looked at before the ticker
nodeLabel_symbolFirst(n) ==
    OrStr(n.properties.symbol, OrStr(n.properties.ticker, OrStr(n.properties.metric,
    OrStr(n.properties.quarter, OrStr(firstTag(n), n.id)))))
\* renderGraph: the label of a node
nodeLabel(n) ==
    OrStr(n.properties.ticker, OrStr(n.properties.symbol, OrStr(n.properties.metric,
    OrStr(n.properties.quarter, OrStr(firstTag(n), n.id)))))

\* renderGraph: the node and edge sets built from a response
graphData(data) ==
    [nodes |-> [k \in DOMAIN data.nodes |->
                  LET n == data.nodes[k]
                  IN  [id |-> n.id, label |-> nodeLabel(n),
                       group |-> OrStr(firstTag(n), "Node")]],
     edges |-> [k \in DOMAIN data.edges |->
                  LET e == data.edges[k]
                  IN  [id |-> e.id, from |-> e.source, to |-> e.target,
                       label |-> OrStr(e.type, ""), arrows |-> "to"]]]

\* a mutant of setData: the new nodes and edges are added to the old ones
setData_add(net, d) ==
    [net EXCEPT !.nodes = @ \o d.nodes, !.edges = @ \o d.edges, !.replaced = TRUE]
\* graphNetwork.setData: the data of the network is replaced
setData(net, d) ==
    [net EXCEPT !.nodes = d.nodes, !.edges = d.edges, !.replaced = TRUE]

\* renderGraph: the network is created by the first response and given new data
\* by every later one
renderGraph(net, data) ==
    LET d == graphData(data)
    IN  IF net.created THEN setData(net, d)
        ELSE [nodes |-> d.nodes, edges |-> d.edges, created |-> TRUE,
              replaced |-> FALSE]

\* loadGraph "click", up to the await: the user has picked a ticker of the list
LoadGraph(t) ==
    /\ doc = "dashboard"
    /\ Click
    /\ t \in Range(elements.tickerOptions)
    /\ Room(1)
    /\ LET sent == <<Request("graph",
                             Append(AppendIf(<<>>, "ticker", Trim(t)), <<"limit", "100">>),
                             TRUE)>>
       IN  /\ inflight' = inflight \o sent
           /\ lastEvent' = Event("loadGraph", state, sent, <<>>, FALSE)
    /\ UNCHANGED <<doc, dashVars, callsVars, detail>>

\* loadGraph after its await
GraphOk(i) ==
    /\ doc = "dashboard"
    /\ inflight[i].api = "graph"
    /\ graphNetwork' = renderGraph(graphNetwork, GraphResponse(inflight[i].qs))
    /\ graphShown' = inflight[i].qs
    /\ inflight' = RemoveAt(inflight, i)
    /\ lastEvent' = Event("graphOk", state, <<>>, <<>>, Direct(i))
    /\ UNCHANGED <<doc, state, elements, lastColumns, shown, appliedSinceChange,
                   callsVars, detail, clicks>>

\* loadGraph, the catch branch
GraphFail(i) ==
    /\ doc = "dashboard"
    /\ inflight[i].api = "graph"
    /\ inflight' = RemoveAt(inflight, i)
    /\ lastEvent' = Event("graphFail", Before(i, state), <<>>,
                          <<"Graph request failed: 500">>, Direct(i))
    /\ UNCHANGED <<doc, dashVars, callsVars, detail, clicks>>

----------------------------------------------------------------------------
(* Row detail inspector: the values a row's analysis field can hold *)

Undef == [t |-> "undefined"]
Null == [t |-> "null"]
Str(s) == [t |-> "string", s |-> s]
Num(n) == [t |-> "number", n |-> n]
Arr(elems) == [t |-> "array", elems |-> elems]
Obj(props) == [t |-> "object", props |-> props]

\* truthiness of a value: `!raw`, `a || b`
Truthy(v) ==
    CASE v.t \in {"undefined", "null"} -> FALSE
      [] v.t = "string" -> v.s # ""
      [] v.t = "number" -> v.n # 0
      [] OTHER -> TRUE

Or(a, b) == IF Truthy(a) THEN a ELSE b

\* v.name: reading a property of undefined or null throws a TypeError; a value
\* without the property gives undefined
CanRead(v) == v.t \notin {"undefined", "null"}
Prop(v, name) ==
    IF v.t = "object" /\ name \in DOMAIN v.props THEN v.props[name] ELSE Undef

\* the text of a value used as a property key or as textContent
ToText(v) ==
    CASE v.t = "string" -> v.s
      [] v.t = "number" -> String(v.n)
      [] v.t = "array" -> ""
      [] v.t = "object" -> "[object Object]"
      [] OTHER -> v.t

\* the one analysis block of the specification's example
ExampleItem ==
    Obj([type |-> Str("Risk"), metric |-> Str("EPS"), value |-> Str("-0.10"),
         reason |-> Str("miss")])

\* JSON.parse on the texts of the model: the value, or a SyntaxError
JSONParse(text) ==
    CASE text = "null" -> [ok |-> TRUE, value |-> Null]
      [] text = "5" -> [ok |-> TRUE, value |-> Num(5)]
      [] text = "\"hi\"" -> [ok |-> TRUE, value |-> Str("hi")]
      [] text = "[]" -> [ok |-> TRUE, value |-> Arr(<<>>)]
      [] text = "{}" -> [ok |-> TRUE, value |-> Obj(<<>>)]
      [] text = "{\"items\":[],\"summary\":\"ok\"}" ->
            [ok |-> TRUE, value |-> Obj([items |-> Arr(<<>>), summary |-> Str("ok")])]
      [] text = "{\"items\":[null]}" ->
            [ok |-> TRUE, value |-> Obj([items |-> Arr(<<Null>>)])]
      [] text = "{\"items\":[{\"type\":\"Risk\",\"metric\":\"EPS\",\"value\":\"-0.10\",\"reason\":\"miss\"}],\"summary\":\"ok\"}" ->
            [ok |-> TRUE,
             value |-> Obj([items |-> Arr(<<ExampleItem>>), summary |-> Str("ok")])]
      [] OTHER -> [ok |-> FALSE, value |-> Undef]

\* property names every object inherits from Object.prototype
ObjectPrototypeNames ==
    {"constructor", "toString", "valueOf", "hasOwnProperty", "isPrototypeOf",
     "propertyIsEnumerable", "toLocaleString", "__proto__"}

\* a key that is a canonical array index, and its number
IsIndexKey(key) == \E n \in 0..99 : String(n) = key
IndexOf(key) == CHOOSE n \in 0..99 : String(n) = key

\* the position of key among the own keys of groups (0: none)
KeyPos(groups, key) ==
    IF \E k \in DOMAIN groups : groups[k].type = key
    THEN CHOOSE k \in DOMAIN groups : groups[k].type = key
    ELSE 0

\* items.forEach(...) of the grouping, from item k on: the own properties of
\* `groups` in insertion order, or a TypeError
RECURSIVE GroupItems(_, _, _)
GroupItems(items, k, groups) ==
    IF k > Len(items) THEN [ok |-> TRUE, groups |-> groups]
    ELSE IF ~CanRead(items[k]) THEN [ok |-> FALSE, groups |-> groups]
    ELSE LET key == ToText(Or(Prop(items[k], "type"), Str("Other")))
             pos == KeyPos(groups, key)
         IN  IF pos # 0
             THEN GroupItems(items, k + 1,
                             [groups EXCEPT ![pos].list = Append(@, items[k])])
             ELSE IF key \in ObjectPrototypeNames
             THEN [ok |-> FALSE, groups |-> groups]
             ELSE GroupItems(items, k + 1,
                             Append(groups, [type |-> key, list |-> <<items[k]>>]))

\* the index keys of groups in ascending order
RECURSIVE SortedIndexKeys(_)
SortedIndexKeys(groups) ==
    LET idx == {k \in DOMAIN groups : IsIndexKey(groups[k].type)}
    IN  IF idx = {} THEN <<>>
        ELSE LET m == CHOOSE k \in idx :
                        \A j \in idx : IndexOf(groups[k].type) <= IndexOf(groups[j].type)
             IN  <<groups[m]>> \o SortedIndexKeys(RemoveAt(groups, m))

\* Object.entries(groups): index keys in ascending order, then the other keys in
\* insertion order
ObjectEntries(groups) ==
    SortedIndexKeys(groups) \o SelectSeq(groups, LAMBDA g : ~IsIndexKey(g.type))

\* one fact of a group
renderFact(item) ==
    [metric |-> ToText(Or(Prop(item, "metric"), Str("Metric"))),
     value |-> ToText(Or(Prop(item, "value"), Str(""))),
     reason |-> ToText(Or(Prop(item, "reason"), Str("")))]

\* `typeof raw === "string" ? JSON.parse(raw) : raw` inside try/catch
decodeRaw(raw) ==
    IF raw.t = "string"
    THEN [status |-> IF JSONParse(raw.s).ok THEN "ok" ELSE "parseerror",
          value |-> JSONParse(raw.s).value]
    ELSE [status |-> "ok", value |-> raw]

Details(status, groups, summary) ==
    [status |-> status, groups |-> groups, summary |-> summary]

\* renderAgentDetails: what the agentDetails node holds afterwards; status "threw"
\* when a TypeError leaves the function
renderAgentDetails(raw) ==
    IF ~Truthy(raw) THEN Details("noanalysis", <<>>, "")
    ELSE LET dec == decodeRaw(raw)
             parsed == dec.value
         IN  IF dec.status # "ok" THEN Details(dec.status, <<>>, "")
             ELSE IF ~CanRead(parsed) THEN Details("threw", <<>>, "")
             ELSE LET its == Prop(parsed, "items")
                      items == IF its.t = "array" THEN its.elems ELSE <<>>
                      summaryText == Or(Prop(parsed, "summary"), Str(""))
                      grouped == GroupItems(items, 1, <<>>)
                      entries == ObjectEntries(grouped.groups)
                  IN  IF Len(items) = 0 /\ ~Truthy(summaryText)
                      THEN Details("noanalysis", <<>>, "")
                      ELSE IF ~grouped.ok THEN Details("threw", <<>>, "")
                      ELSE Details("rendered",
                                   [k \in DOMAIN entries |->
                                       [type |-> entries[k].type,
                                        count |-> Len(entries[k].list),
                                        open |-> (k = 1),
                                        facts |-> [j \in DOMAIN entries[k].list |->
                                                     renderFact(entries[k].list[j])]]],
                                   ToText(summaryText))

\* the values of parsed_and_analyzed_facts on the rows the server sends
AnalysisInputs ==
    {Undef, Null, Str(""),
     Str("not valid json {"), Str("null"), Str("5"), Str("\"hi\""), Str("[]"), Str("{}"),
     Str("{\"items\":[],\"summary\":\"ok\"}"),
     Str("{\"items\":[null]}"),
     Str("{\"items\":[{\"type\":\"Risk\",\"metric\":\"EPS\",\"value\":\"-0.10\",\"reason\":\"miss\"}],\"summary\":\"ok\"}"),
     Obj([items |-> Arr(<<>>), summary |-> Str("")]),
     Obj([items |-> Str("none"), summary |-> Str("only a summary")]),
     Obj([items |-> Arr(<<Num(7), ExampleItem>>)]),
     Obj([items |-> Arr(<<Obj([type |-> Str("constructor")])>>)]),
     Obj([items |-> Arr(<<Obj([type |-> Str("Risk"), metric |-> Str("m1")]),
                         Obj([metric |-> Str("m2")]),
                         Obj([type |-> Str("Growth")]),
                         Obj([type |-> Str("Risk"), metric |-> Str("m3")])>>),
          summary |-> Str("mixed")]),
     Obj([items |-> Arr(<<Obj([type |-> Str("Risk"), metric |-> Str("m1")]),
                         Obj([metric |-> Str("m2")]),
                         Obj([type |-> Str("Growth")]),
                         Obj([type |-> Str("Risk"), metric |-> Str("m3")]),
                         Obj([type |-> Str("2")])>>)])}

\* the fields of a row that renderBaselineDetails reads
BaselineFields ==
    {"sentiment", "polarity", "positive_count", "negative_count", "label", "pred",
     "future_3bday_cum_return", "actual_return"}

\* a ?? b
Nullish(a, b) == IF a \in {Undef, Null} THEN b ELSE a

\* renderBaselineDetails, the test of add: the values it leaves out
Skipped(v) == v \in {Undef, Null, Str("")}

\* renderBaselineDetails: what the baselineDetails node holds afterwards
renderBaselineDetails(columns, row) ==
    LET hasBaseline == \E c \in {"sentiment", "positive_count", "polarity"} :
                           c \in Range(columns)
        futureRet == Nullish(row["future_3bday_cum_return"], row["actual_return"])
        candidates ==
            <<[label |-> "Sentiment", value |-> row["sentiment"]],
              [label |-> "Polarity", value |-> row["polarity"]],
              [label |-> "Positive count", value |-> row["positive_count"]],
              [label |-> "Negative count", value |-> row["negative_count"]],
              [label |-> "Label", value |-> row["label"]],
              [label |-> "Pred", value |-> row["pred"]],
              [label |-> "Future 3-day return / Actual return", value |-> futureRet]>>
        added(c) == ~Skipped(c.value)
        kept == SelectSeq(candidates, added)
        list == [k \in DOMAIN kept |->
                    [label |-> kept[k].label, text |-> ToText(kept[k].value)]]
    IN  IF ~hasBaseline THEN [status |-> "nobaseline", list |-> <<>>]
        ELSE IF Len(list) = 0 THEN [status |-> "novalues", list |-> <<>>]
        ELSE [status |-> "list", list |-> list]

NoBaselineValues == [f \in BaselineFields |-> Undef]

\* the baseline fields of the rows the server sends
BaselineInputs ==
    {NoBaselineValues,
     [f \in BaselineFields |-> IF f = "sentiment" THEN Str("") ELSE Null],
     [NoBaselineValues EXCEPT !["sentiment"] = Str("pos"), !["polarity"] = Num(0),
                              !["label"] = Str("UP"),
                              !["future_3bday_cum_return"] = Num(3),
                              !["actual_return"] = Num(9)],
     [NoBaselineValues EXCEPT !["future_3bday_cum_return"] = Str(""),
                              !["actual_return"] = Num(5)],
     [NoBaselineValues EXCEPT !["future_3bday_cum_return"] = Null,
                              !["actual_return"] = Num(5)],
     [NoBaselineValues EXCEPT !["positive_count"] = Num(2),
                              !["negative_count"] = Num(0), !["pred"] = Str("DOWN")]}

\* the rows the server sends: an analysis with no baseline values, baseline values
\* with no analysis, and both
RowInputs ==
    {[analysis |-> a, base |-> NoBaselineValues] : a \in AnalysisInputs}
    \cup {[analysis |-> Undef, base |-> b] : b \in BaselineInputs}
    \cup {[analysis |-> a, base |-> b] :
              a \in {Str("null"), Str("{\"items\":[],\"summary\":\"ok\"}")},
              b \in {b1 \in BaselineInputs : b1["sentiment"] = Str("pos")}}

\* a body row of the table as showRowDetails receives it: the row of the response
\* with the fields its dataset has as columns
RowObject(row, in) ==
    LET has(f) == f \in Range(ServerColumns(row.dataset))
    IN  [dataset |-> row.dataset, id |-> row.id,
         analysis |-> IF has("parsed_and_analyzed_facts") THEN in.analysis ELSE Undef,
         base |-> [f \in BaselineFields |-> IF has(f) THEN in.base[f] ELSE Undef]]

\* a table-row "click": showRowDetails.  A TypeError from renderAgentDetails
\* leaves the handler before renderBaselineDetails runs.
ShowRowDetails(k, in) ==
    /\ doc = "dashboard"
    /\ k \in DOMAIN elements.tableBody
    /\ k <= MaxRowClick
    /\ "id" \in DOMAIN elements.tableBody[k]
    /\ LET row == RowObject(elements.tableBody[k], in)
           agent == renderAgentDetails(row.analysis)
       IN  elements' = [elements EXCEPT
                           !.rowDetails = row,
                           !.agentDetails = agent,
                           !.baselineDetails =
                               IF agent.status = "threw" THEN @
                               ELSE renderBaselineDetails(lastColumns, row.base)]
    /\ lastEvent' = Event("showRowDetails", state, <<>>, <<>>, FALSE)
    /\ UNCHANGED <<doc, state, lastColumns, graphNetwork, graphShown, shown, appliedSinceChange,
                   callsVars, detail, inflight, clicks>>

----------------------------------------------------------------------------
(* Calls list *)

InitCallState ==
    [page |-> 1, pageSize |-> 10, exchange |-> "", sector |-> "", pred |-> "",
     retMin |-> "", retMax |-> "", sort |-> "date", maxPage |-> UNDEFINED]

\* the page's table, page text and navigation buttons; no line of calls.js assigns
\* the disabled property of a button, so each keeps what the page's markup gave it
InitCallElements(pd, nd) ==
    [tableBody |-> <<>>, pageInfo |-> BlankPageInfo, prevDisabled |-> pd,
     nextDisabled |-> nd]

\* what the user can have entered in the filter controls when clicking "apply"
CallInputs ==
    {[exchange |-> "", sector |-> " ", pred |-> "", retMin |-> "", retMax |-> "",
      sort |-> "date"],
     [exchange |-> "NYSE", sector |-> "", pred |-> "UP", retMin |-> "", retMax |-> "",
      sort |-> "date"],
     [exchange |-> "", sector |-> " Tech ", pred |-> "", retMin |-> "0", retMax |-> "1",
      sort |-> "return"]}

\* GET /api/sample-calls -> {rows, total}
CallsTotal(qs) ==
    IF Keys(qs) \subseteq {"page", "page_size", "sort_by"} THEN CallsAll
    ELSE IF Has(qs, "return_min") THEN 0
    ELSE CallsFiltered

CallsResponse(qs) ==
    LET page == ParseInt(Get(qs, "page"))
        size == ParseInt(Get(qs, "page_size"))
        total == CallsTotal(qs)
        first == (page - 1) * size
        n == Max(0, Min(size, total - first))
    IN  [rows |-> [i \in 1..n |-> [id |-> first + i]], total |-> total]

\* loadCalls up to its await: the request it sends
loadCallsSend(cs) ==
    LET p0 == <<<<"page", String(cs.page)>>, <<"page_size", String(cs.pageSize)>>,
                <<"sort_by", cs.sort>>>>
        p1 == AppendIf(p0, "exchange", cs.exchange)
        p2 == AppendIf(p1, "sector", cs.sector)
        p3 == AppendIf(p2, "pred_label", cs.pred)
        p4 == AppendIf(p3, "return_min", cs.retMin)
    IN  <<Request("calls", AppendIf(p4, "return_max", cs.retMax), TRUE)>>

\* renderCalls
renderCalls(el, rows) ==
    [el EXCEPT !.tableBody =
        IF Len(rows) = 0 THEN <<[placeholder |-> "No data.", colSpan |-> 7]>> ELSE rows]

\* the page count loadCalls derives from a response
callsMaxPage(total, pageSize) == Max(1, MathCeilDiv(total, pageSize))

\* apply "click"
CallsApply(in) ==
    /\ doc = "calls"
    /\ Click
    /\ Room(1)
    /\ LET cs == [callState EXCEPT !.exchange = in.exchange, !.sector = Trim(in.sector),
                                   !.pred = in.pred, !.retMin = in.retMin,
                                   !.retMax = in.retMax, !.sort = in.sort, !.page = 1]
           sent == loadCallsSend(cs)
       IN  /\ callState' = cs
           /\ inflight' = inflight \o sent
           /\ lastEvent' = Event("callsApply", callState, sent, <<>>, FALSE)
    /\ UNCHANGED <<doc, dashVars, callElements, callShown, detail>>

\* reset "click"
CallsReset ==
    /\ doc = "calls"
    /\ Click
    /\ Room(1)
    /\ LET cs == [callState EXCEPT !.exchange = "", !.sector = "", !.pred = "",
                                   !.retMin = "", !.retMax = "", !.sort = "date",
                                   !.page = 1]
           sent == loadCallsSend(cs)
       IN  /\ callState' = cs
           /\ inflight' = inflight \o sent
           /\ lastEvent' = Event("callsReset", callState, sent, <<>>, FALSE)
    /\ UNCHANGED <<doc, dashVars, callElements, callShown, detail>>

\* the guards of the prev and next "click" handlers
callsPrevGuard(cs) == cs.page > 1
callsNextGuard(cs) == cs.page < OrNum(cs.maxPage, 1)

\* prev "click"
CallsPrev ==
    /\ doc = "calls"
    /\ ~callElements.prevDisabled
    /\ Click
    /\ Room(1)
    /\ LET cs == IF callsPrevGuard(callState) THEN [callState EXCEPT !.page = @ - 1]
                 ELSE callState
           sent == IF callsPrevGuard(callState) THEN loadCallsSend(cs) ELSE <<>>
       IN  /\ callState' = cs
           /\ inflight' = inflight \o sent
           /\ lastEvent' = Event("callsPrev", callState, sent, <<>>, FALSE)
    /\ UNCHANGED <<doc, dashVars, callElements, callShown, detail>>

\* next "click"
CallsNext ==
    /\ doc = "calls"
    /\ ~callElements.nextDisabled
    /\ Click
    /\ Room(1)
    /\ LET cs == IF callsNextGuard(callState) THEN [callState EXCEPT !.page = @ + 1]
                 ELSE callState
           sent == IF callsNextGuard(callState) THEN loadCallsSend(cs) ELSE <<>>
       IN  /\ callState' = cs
           /\ inflight' = inflight \o sent
           /\ lastEvent' = Event("callsNext", callState, sent, <<>>, FALSE)
    /\ UNCHANGED <<doc, dashVars, callElements, callShown, detail>>

\* loadCalls after its await
CallsOk(i) ==
    /\ doc = "calls"
    /\ inflight[i].api = "calls"
    /\ LET data == CallsResponse(inflight[i].qs)
           total == OrNum(data.total, 0)
           maxPage == callsMaxPage(total, callState.pageSize)
       IN  /\ callState' = [callState EXCEPT !.maxPage = maxPage]
           /\ callElements' =
                 [renderCalls(callElements, data.rows) EXCEPT
                     !.pageInfo = [page |-> callState.page, totalPages |-> maxPage,
                                   total |-> total]]
    /\ callShown' = inflight[i].qs
    /\ inflight' = RemoveAt(inflight, i)
    /\ lastEvent' = Event("callsOk", callState', <<>>, <<>>, Direct(i))
    /\ UNCHANGED <<doc, dashVars, detail, clicks>>

\* loadCalls, the catch branch
CallsFail(i) ==
    /\ doc = "calls"
    /\ inflight[i].api = "calls"
    /\ inflight' = RemoveAt(inflight, i)
    /\ lastEvent' = Event("callsFail", Before(i, callState), <<>>, <<"Failed: 500">>,
                          Direct(i))
    /\ UNCHANGED <<doc, dashVars, callsVars, detail, clicks>>

----------------------------------------------------------------------------
(* Call detail page *)

\* what getParam("id") can return: no such parameter, an empty one, an id
IdParams == {NULL, "", "c1"}

InitDetail(id) == [id |-> id, sections |-> {}]

\* the DOMContentLoaded handler: the alert it raises and the request it sends
detailLoadAlerts(id) == IF ~TruthyStr(id) THEN <<"Missing id">> ELSE <<>>
\* a mutant of detailLoadSend: the request is sent whatever the id
detailLoadSend_always(id) == <<Request("call", <<<<"id", id>>>>, TRUE)>>
detailLoadSend(id) ==
    IF ~TruthyStr(id) THEN <<>> ELSE <<Request("call", <<<<"id", id>>>>, TRUE)>>

\* loadCall after its await
CallOk(i) ==
    /\ doc = "call"
    /\ inflight[i].api = "call"
    /\ detail' = [detail EXCEPT !.sections = {"basic", "agent", "baseline", "tokens"}]
    /\ inflight' = RemoveAt(inflight, i)
    /\ lastEvent' = Event("callOk", detail', <<>>, <<>>, Direct(i))
    /\ UNCHANGED <<doc, dashVars, callsVars, clicks>>

\* loadCall, the catch branch
CallFail(i) ==
    /\ doc = "call"
    /\ inflight[i].api = "call"
    /\ inflight' = RemoveAt(inflight, i)
    /\ lastEvent' = Event("callFail", Before(i, detail), <<>>, <<"Not found: 404">>,
                          Direct(i))
    /\ UNCHANGED <<doc, dashVars, callsVars, detail, clicks>>

----------------------------------------------------------------------------
(* The three documents after their DOMContentLoaded handlers *)

InitIdle ==
    /\ state = InitState
    /\ lastColumns = <<>>
    /\ graphNetwork = NoGraph
    /\ graphShown = <<>>
    /\ shown = <<>>
    /\ appliedSinceChange = FALSE
    /\ callState = InitCallState
    /\ callShown = <<>>
    /\ clicks = 0

InitDashboard ==
    /\ doc = "dashboard"
    /\ InitIdle
    /\ \E pd \in BOOLEAN, nd \in BOOLEAN : elements = InitElements(pd, nd)
    /\ callElements = InitCallElements(FALSE, FALSE)
    /\ detail = InitDetail(NULL)
    /\ inflight = <<Request("datasets", <<>>, TRUE)>>
    /\ lastEvent = Event("load", InitState, inflight, <<>>, FALSE)

InitCalls ==
    /\ doc = "calls"
    /\ InitIdle
    /\ elements = InitElements(FALSE, FALSE)
    /\ \E pd \in BOOLEAN, nd \in BOOLEAN : callElements = InitCallElements(pd, nd)
    /\ detail = InitDetail(NULL)
    /\ inflight = loadCallsSend(InitCallState)
    /\ lastEvent = Event("load", InitCallState, inflight, <<>>, FALSE)

InitCall ==
    /\ doc = "call"
    /\ InitIdle
    /\ elements = InitElements(FALSE, FALSE)
    /\ callElements = InitCallElements(FALSE, FALSE)
    /\ \E id \in IdParams :
          /\ detail = InitDetail(id)
          /\ inflight = detailLoadSend(id)
          /\ lastEvent = Event("load", detail, inflight, detailLoadAlerts(id), FALSE)

Init == InitDashboard \/ InitCalls \/ InitCall

Next ==
    \/ \E d \in Range(ServerDatasets) : DatasetChange(d)
    \/ \E t \in {"", "T1", "T2"}, q \in {"", "Q1"}, s \in SearchInputs : ApplyFilters(t, q, s)
    \/ PrevPage
    \/ NextPage
    \/ \E t \in {"", "T1", "T2"} : LoadGraph(t)
    \/ \E in \in CallInputs : CallsApply(in)
    \/ CallsReset
    \/ CallsPrev
    \/ CallsNext
    \/ \E i \in DOMAIN inflight, ds \in {<<>>, ServerDatasets} : DatasetsOk(i, ds)
    \/ \E i \in DOMAIN inflight : DatasetsFail(i)
    \/ \E i \in DOMAIN inflight : OptionsOk(i)
    \/ \E i \in DOMAIN inflight : OptionsFail(i)
    \/ \E i \in DOMAIN inflight : RowsOk(i)
    \/ \E i \in DOMAIN inflight : RowsFail(i)
    \/ \E i \in DOMAIN inflight : GraphOk(i)
    \/ \E i \in DOMAIN inflight : GraphFail(i)
    \/ \E i \in DOMAIN inflight : CallsOk(i)
    \/ \E i \in DOMAIN inflight : CallsFail(i)
    \/ \E i \in DOMAIN inflight : CallOk(i)
    \/ \E i \in DOMAIN inflight : CallFail(i)

Spec == Init /\ [][Next]_vars

\* the dashboard loading its first page, and the user inspecting rows of it
NextRow ==
    \/ \E i \in DOMAIN inflight, ds \in {<<"A", "B">>, <<"B", "A">>} : DatasetsOk(i, ds)
    \/ \E i \in DOMAIN inflight : OptionsOk(i)
    \/ \E i \in DOMAIN inflight : RowsOk(i)
    \/ \E k \in DOMAIN elements.tableBody, in \in RowInputs : ShowRowDetails(k, in)

SpecRow == InitDashboard /\ [][NextRow]_vars

----------------------------------------------------------------------------
(* Properties *)

IsFailure(kind) ==
    kind \in {"datasetsFail", "optionsFail", "rowsFail", "graphFail", "callsFail", "callFail"}

RowsInFlight == {i \in DOMAIN inflight : inflight[i].api = "rows"}
CallsInFlight == {i \in DOMAIN inflight : inflight[i].api = "calls"}

\* C1: a rows response for a dataset that is no longer selected does not overwrite
\* the table of the selected dataset: once the table and lastColumns show the
\* selected dataset they keep showing it for as long as the selection stays.
C1_StaleResponseKeepsTable ==
    [][(/\ shown # <<>>
        /\ Get(shown, "dataset") = state.dataset
        /\ state'.dataset = state.dataset)
       => (/\ Get(shown', "dataset") = state'.dataset
           /\ lastColumns' = ServerColumns(state'.dataset))]_vars

\* C2: no rows request carries a ticker or a quarter that was applied before the
\* dataset it asks for was selected.
C2_NoStaleFilterInRequest ==
    \A i \in RowsInFlight :
        ~inflight[i].fresh =>
            (~Has(inflight[i].qs, "ticker") /\ ~Has(inflight[i].qs, "quarter"))

\* C3: once the options request of a dataset change has been answered, whatever the
\* answer, and the user has not applied filters since the change, ticker and
\* quarter are unset.
C3_FiltersUnsetAfterChange ==
    (/\ doc = "dashboard"
     /\ TruthyStr(state.dataset)
     /\ ~appliedSinceChange
     /\ \A i \in DOMAIN inflight : inflight[i].api # "options")
    => (state.ticker = "" /\ state.quarter = "")

\* C4: the current page is within the valid range, in the dashboard and in the
\* calls list.
C4_PageInRange ==
    /\ doc = "dashboard" =>
          (/\ 1 <= state.page
           /\ state.page <= computeTotalPages(OrNum(state.total, 0), state.pageSize))
    /\ doc = "calls" =>
          (/\ 1 <= callState.page
           /\ callState.page <= OrNum(callState.maxPage, 1))

AtLastPage(st) == st.page = computeTotalPages(OrNum(st.total, 0), st.pageSize)
CallsAtLastPage(cs) == cs.page = OrNum(cs.maxPage, 1)

\* C5: a next click on the last page and a prev click on page 1 change no field of
\* the browse state and send no request, in the dashboard and in the calls list.
C5_EdgeClickIsNoOp ==
    /\ (lastEvent.kind = "nextPage" /\ AtLastPage(lastEvent.before))
          => (state = lastEvent.before /\ lastEvent.issued = <<>>)
    /\ (lastEvent.kind = "prevPage" /\ lastEvent.before.page = 1)
          => (state = lastEvent.before /\ lastEvent.issued = <<>>)
    /\ (lastEvent.kind = "callsNext" /\ CallsAtLastPage(lastEvent.before))
          => (callState = lastEvent.before /\ lastEvent.issued = <<>>)
    /\ (lastEvent.kind = "callsPrev" /\ lastEvent.before.page = 1)
          => (callState = lastEvent.before /\ lastEvent.issued = <<>>)

\* a next click on the last page of a dataset whose page count is known, taken
\* while the button is still enabled
C5_Witness ==
    /\ lastEvent.kind = "nextPage"
    /\ AtLastPage(lastEvent.before)
    /\ lastEvent.before.total # UNDEFINED
    /\ lastEvent.before.page > 1

\* C6: when a rows request fails right after the user action that issued it, the
\* browse state is the one before that action.
C6_FailureRestoresState ==
    /\ (lastEvent.kind = "rowsFail" /\ lastEvent.direct) => state = lastEvent.before
    /\ (lastEvent.kind = "callsFail" /\ lastEvent.direct) => callState = lastEvent.before

\* C7: the handling of every failed request raises exactly one alert.
C7_OneAlertPerFailure ==
    IsFailure(lastEvent.kind) => Len(lastEvent.alerts) = 1

\* C8: renderAgentDetails ends in one of the states "no analysis", "could not
\* parse" and "rendered", and never by throwing; a string that is not valid JSON
\* ends in "could not parse".
C8_DecoderNeverThrows ==
    /\ elements.agentDetails.status \in {"blank", "noanalysis", "parseerror", "rendered"}
    /\ (/\ lastEvent.kind = "showRowDetails"
        /\ elements.rowDetails.analysis.t = "string"
        /\ elements.rowDetails.analysis.s # ""
        /\ ~JSONParse(elements.rowDetails.analysis.s).ok)
       => elements.agentDetails.status = "parseerror"

\* n is max(1, ceil(total / pageSize)): the least n >= 1 with n * pageSize >= total
IsPageCount(n, total, pageSize) ==
    /\ n >= 1
    /\ n * pageSize >= total
    /\ n > 1 => (n - 1) * pageSize < total

\* C9: computeTotalPages(total, pageSize) is max(1, ceil(total / pageSize)), on a
\* grid of totals and page sizes and on every page count the two views display;
\* the calls list derives maxPage by the same formula.
C9_TotalPages ==
    /\ \A total \in 0..MaxTotal, pageSize \in 1..MaxPageSize :
          /\ IsPageCount(computeTotalPages(total, pageSize), total, pageSize)
          /\ callsMaxPage(total, pageSize) = computeTotalPages(total, pageSize)
    /\ computeTotalPages(0, state.pageSize) = 1
    /\ elements.pageInfo # BlankPageInfo =>
          IsPageCount(elements.pageInfo.totalPages, elements.pageInfo.total,
                      state.pageSize)
    /\ callElements.pageInfo # BlankPageInfo =>
          /\ IsPageCount(callState.maxPage, callElements.pageInfo.total,
                         callState.pageSize)
          /\ callState.maxPage = computeTotalPages(callElements.pageInfo.total,
                                                   callState.pageSize)

\* a displayed page count of a total that the page size does not divide
C9_Witness ==
    /\ elements.pageInfo # BlankPageInfo
    /\ elements.pageInfo.total % state.pageSize # 0
    /\ elements.pageInfo.totalPages = 2

\* the keys a rows request built from st must carry, and those a calls request
\* built from cs must carry
RowsKeys(st) ==
    {"dataset", "page", "page_size"}
        \cup (IF st.ticker # "" THEN {"ticker"} ELSE {})
        \cup (IF st.quarter # "" THEN {"quarter"} ELSE {})
        \cup (IF st.search # "" THEN {"search"} ELSE {})
CallsKeys(cs) ==
    {"page", "page_size", "sort_by"}
        \cup (IF cs.exchange # "" THEN {"exchange"} ELSE {})
        \cup (IF cs.sector # "" THEN {"sector"} ELSE {})
        \cup (IF cs.pred # "" THEN {"pred_label"} ELSE {})
        \cup (IF cs.retMin # "" THEN {"return_min"} ELSE {})
        \cup (IF cs.retMax # "" THEN {"return_max"} ELSE {})

\* C10: a rows request carries exactly dataset, page, page_size and the key of each
\* non-empty filter of the state it was built from, never a key with an empty
\* value, and none is sent while the dataset is unset; likewise a calls request
\* with page, page_size, sort_by and its five filters.
C10_QueryKeys ==
    /\ \A k \in DOMAIN lastEvent.issued :
          LET r == lastEvent.issued[k]
          IN  /\ r.api = "rows" =>
                    /\ Keys(r.qs) = RowsKeys(state)
                    /\ Len(r.qs) = Cardinality(Keys(r.qs))
                    /\ TruthyStr(state.dataset)
              /\ r.api = "calls" =>
                    /\ Keys(r.qs) = CallsKeys(callState)
                    /\ Len(r.qs) = Cardinality(Keys(r.qs))
    /\ \A i \in RowsInFlight \cup CallsInFlight :
          \A k \in DOMAIN inflight[i].qs :
              inflight[i].qs[k][1] \notin {"page", "page_size", "sort_by", "dataset"}
                  => inflight[i].qs[k][2] # ""
    /\ \A i \in RowsInFlight :
          /\ {"dataset", "page", "page_size"} \subseteq Keys(inflight[i].qs)
          /\ TruthyStr(Get(inflight[i].qs, "dataset"))
    /\ \A i \in CallsInFlight :
          {"page", "page_size", "sort_by"} \subseteq Keys(inflight[i].qs)

\* a rows request just built from a state with a ticker and without a search text
C10_Witness ==
    /\ lastEvent.kind = "applyFilters"
    /\ state.ticker # ""
    /\ state.search = ""
    /\ \E k \in DOMAIN lastEvent.issued :
          /\ lastEvent.issued[k].api = "rows"
          /\ Has(lastEvent.issued[k].qs, "ticker")
          /\ ~Has(lastEvent.issued[k].qs, "search")


\* the handlers that change a filter
ChangesFilter(kind) ==
    kind \in {"datasetChange", "applyFilters", "callsApply", "callsReset"}

\* C11: the request sent by an apply, a reset or a dataset change carries page=1,
\* and the page of the browse state is 1 when it is built, from whatever page the
\* action was taken.
C11_FilterChangeResetsPage ==
    ChangesFilter(lastEvent.kind) =>
        /\ doc = "dashboard" => state.page = 1
        /\ doc = "calls" => callState.page = 1
        /\ \A k \in DOMAIN lastEvent.issued :
              lastEvent.issued[k].api \in {"rows", "calls"}
                  => Get(lastEvent.issued[k].qs, "page") = "1"

\* filters applied from page 2, and the request that was sent for them
C11_Witness ==
    /\ lastEvent.kind = "applyFilters"
    /\ lastEvent.before.page = 2
    /\ \E k \in DOMAIN lastEvent.issued :
          /\ lastEvent.issued[k].api = "rows"
          /\ Get(lastEvent.issued[k].qs, "page") = "1"

\* C12: after a successful rows response, state.total and state.pageSize are those
\* of the response, and the enabled flags of prev and next and the guard of the next
\* click follow from the page, page_size and total of the response.
C12_ServerIsSourceOfTruth ==
    /\ shown # <<>> =>
          /\ state.total = RowsResponse(shown).total
          /\ state.pageSize = RowsResponse(shown).page_size
    /\ lastEvent.kind = "rowsOk" =>
          LET data == RowsResponse(shown)
              pages == CHOOSE n \in 1..(data.total + 1) :
                           IsPageCount(n, data.total, data.page_size)
          IN  /\ elements.prevDisabled = (data.page <= 1)
              /\ elements.nextDisabled = (data.page >= pages)
              /\ nextGuard(state) = (data.page < pages)

\* a response whose total differs from the one the client held before it
C12_Witness ==
    /\ lastEvent.kind = "rowsOk"
    /\ lastEvent.direct
    /\ state.total = RowsFiltered
    /\ Has(shown, "search")
    /\ elements.nextDisabled


\* the single row a table shows when a response has no rows
IsPlaceholderRow(body) ==
    /\ Len(body) = 1
    /\ "placeholder" \in DOMAIN body[1]

\* C13: after a successful response with total = 0, the page count is 1, the table
\* body is exactly one placeholder row, and the prev and the next control are both
\* disabled, in the dashboard and in the calls list.
C13_EmptyResultDisablesNavigation ==
    /\ (lastEvent.kind = "rowsOk" /\ RowsResponse(shown).total = 0) =>
          /\ elements.pageInfo.totalPages = 1
          /\ IsPlaceholderRow(elements.tableBody)
          /\ elements.prevDisabled
          /\ elements.nextDisabled
    /\ (lastEvent.kind = "callsOk" /\ CallsResponse(callShown).total = 0) =>
          /\ callElements.pageInfo.totalPages = 1
          /\ IsPlaceholderRow(callElements.tableBody)
          /\ callElements.prevDisabled
          /\ callElements.nextDisabled


\* the candidate lines of the baseline view whose field is present and non-empty
\* on the row, in the order of display
PresentCandidates(row) ==
    LET present(f) == ~Skipped(row[f])
        fields == <<<<"Sentiment", present("sentiment")>>,
                    <<"Polarity", present("polarity")>>,
                    <<"Positive count", present("positive_count")>>,
                    <<"Negative count", present("negative_count")>>,
                    <<"Label", present("label")>>,
                    <<"Pred", present("pred")>>,
                    <<"Future 3-day return / Actual return",
                      present("future_3bday_cum_return") \/ present("actual_return")>>>>
        isPresent(c) == c[2]
        kept == SelectSeq(fields, isPresent)
    IN  [k \in DOMAIN kept |-> kept[k][1]]

\* C14: after a row is clicked the baseline view is 'no baseline' iff the columns of
\* the displayed table hold none of sentiment, positive_count, polarity; 'columns
\* present but no values' iff one of them is a column and every candidate field of
\* the row is absent, null or empty; and otherwise the list of exactly the candidate
\* fields that are present and non-empty.
C14_BaselineThreeStates ==
    lastEvent.kind = "showRowDetails" =>
        LET view == elements.baselineDetails
            marker == \E c \in {"sentiment", "positive_count", "polarity"} :
                          c \in Range(elements.tableHead)
            present == PresentCandidates(elements.rowDetails.base)
        IN  /\ view.status \in {"nobaseline", "novalues", "list"}
            /\ view.status = "nobaseline" <=> ~marker
            /\ view.status = "novalues" <=> (marker /\ Len(present) = 0)
            /\ view.status = "list" =>
                  [k \in DOMAIN view.list |-> view.list[k].label] = present


\* C15: after any sequence of graph loads, with the responses processed in any
\* order, the nodes and edges displayed are exactly those of the response processed
\* last: nothing of an earlier graph is left, and the same payload rendered twice
\* shows what it shows rendered once.
C15_GraphIsReplaced ==
    graphShown # <<>> =>
        LET data == GraphResponse(graphShown)
        IN  /\ [k \in DOMAIN graphNetwork.nodes |-> graphNetwork.nodes[k].id]
                 = [k \in DOMAIN data.nodes |-> data.nodes[k].id]
            /\ [k \in DOMAIN graphNetwork.edges |->
                   <<graphNetwork.edges[k].id, graphNetwork.edges[k].from,
                     graphNetwork.edges[k].to>>]
                 = [k \in DOMAIN data.edges |->
                       <<data.edges[k].id, data.edges[k].source, data.edges[k].target>>]

\* a response processed after another one: the one-node graph of a ticker has
\* taken the place of what the network showed
C15_Witness ==
    /\ lastEvent.kind = "graphOk"
    /\ graphNetwork.replaced
    /\ Has(graphShown, "ticker")
    /\ Len(graphNetwork.nodes) = 1

\* the first non-empty string of a sequence, "" if there is none
FirstNonEmpty(seq) ==
    LET idx == {i \in DOMAIN seq : seq[i] # ""}
    IN  IF idx = {} THEN ""
        ELSE seq[CHOOSE i \in idx : \A j \in idx : i <= j]

\* C16: the label of a displayed node is the first non-empty value of its ticker,
\* symbol, metric, quarter, first label tag and raw id, in that order; the label of
\* an edge is its type, and the empty string when it has none.
C16_NodeLabelPriority ==
    graphShown # <<>> =>
        LET data == GraphResponse(graphShown)
        IN  /\ \A k \in DOMAIN data.nodes :
                  LET n == data.nodes[k]
                  IN  graphNetwork.nodes[k].label =
                          FirstNonEmpty(<<n.properties.ticker, n.properties.symbol,
                                          n.properties.metric, n.properties.quarter,
                                          IF n.labels = <<>> THEN "" ELSE Head(n.labels),
                                          n.id>>)
            /\ \A k \in DOMAIN data.edges :
                  graphNetwork.edges[k].label = data.edges[k].type

\* a graph with a node labelled by its raw id, one by its metric, one by its first
\* label tag, and an edge without a type
C16_Witness ==
    /\ lastEvent.kind = "graphOk"
    /\ \E k \in DOMAIN graphNetwork.nodes :
          graphNetwork.nodes[k].label = graphNetwork.nodes[k].id
    /\ \E k \in DOMAIN graphNetwork.nodes : graphNetwork.nodes[k].label = "EPS"
    /\ \E k \in DOMAIN graphNetwork.nodes : graphNetwork.nodes[k].label = "Tag"
    /\ \E k \in DOMAIN graphNetwork.edges : graphNetwork.edges[k].label = ""


\* C17: the call-detail page opened without an id, absent or empty, reports the
\* missing id at once, never sends a request and renders no section; a request is
\* sent only when an id is present, and it is the request for that id.
C17_MissingIdSendsNothing ==
    doc = "call" =>
        /\ ~TruthyStr(detail.id) =>
              /\ lastEvent.kind = "load"
              /\ lastEvent.alerts = <<"Missing id">>
              /\ lastEvent.issued = <<>>
              /\ inflight = <<>>
              /\ detail.sections = {}
        /\ \A k \in DOMAIN inflight :
              /\ TruthyStr(detail.id)
              /\ inflight[k].api = "call"
              /\ Get(inflight[k].qs, "id") = detail.id
        /\ (TruthyStr(detail.id) /\ lastEvent.kind = "load") =>
              /\ lastEvent.alerts = <<>>
              /\ Len(lastEvent.issued) = 1

\* the page opened with an empty id parameter
C17_Witness ==
    /\ doc = "call"
    /\ detail.id = ""
    /\ lastEvent.alerts = <<"Missing id">>
    /\ inflight = <<>>


\* the decoded analysis of the row shown in the inspector, and its items
ShownAnalysis == decodeRaw(elements.rowDetails.analysis)
ShownItems ==
    LET its == Prop(ShownAnalysis.value, "items")
    IN  IF its.t = "array" THEN its.elems ELSE <<>>

\* the row shown in the inspector has an analysis that decodes to a block
ShownIsBlock ==
    /\ lastEvent.kind = "showRowDetails"
    /\ Truthy(elements.rowDetails.analysis)
    /\ ShownAnalysis.status = "ok"
    /\ ShownAnalysis.value.t = "object"
    /\ \A k \in DOMAIN ShownItems : ShownItems[k].t = "object"

\* the type an item is grouped under
ItemType(item) ==
    LET t == Prop(item, "type")
    IN  IF t.t = "string" /\ t.s # "" THEN t.s ELSE "Other"

\* the input positions at which a type is seen for the first time, and the n-th of
\* them
FirstSeenAt(items) ==
    {k \in DOMAIN items : \A j \in 1..(k - 1) : ItemType(items[j]) # ItemType(items[k])}
NthFirstSeen(items, n) ==
    CHOOSE k \in FirstSeenAt(items) :
        Cardinality({j \in FirstSeenAt(items) : j < k}) = n - 1

\* C18: the groups of the analysis view are the types of the items in first-seen
\* order, an item without a type under "Other"; each group lists its items in input
\* order, its header counts them, and the first group alone is expanded; for every
\* type string.
C18_GroupsInFirstSeenOrder ==
    (ShownIsBlock /\ Len(ShownItems) > 0) =>
        LET items == ShownItems
            view == elements.agentDetails
        IN  /\ view.status = "rendered"
            /\ Len(view.groups) = Cardinality(FirstSeenAt(items))
            /\ \A n \in DOMAIN view.groups :
                  LET type == ItemType(items[NthFirstSeen(items, n)])
                      member(it) == ItemType(it) = type
                      members == SelectSeq(items, member)
                  IN  /\ view.groups[n].type = type
                      /\ view.groups[n].count = Len(members)
                      /\ view.groups[n].open = (n = 1)
                      /\ view.groups[n].facts =
                             [j \in DOMAIN members |-> renderFact(members[j])]


\* the row shown in the inspector has an analysis field that decodes
ShownDecodes ==
    /\ lastEvent.kind = "showRowDetails"
    /\ Truthy(elements.rowDetails.analysis)
    /\ ShownAnalysis.status = "ok"

\* C19: for an analysis that decodes, the view is 'no analysis' iff the items are
\* empty, or not a sequence, and the summary is empty; otherwise the groups are
\* rendered, and a summary block follows them iff the summary is non-empty, also
\* when there is no item.
C19_NoAnalysisIffEmpty ==
    ShownDecodes =>
        LET view == elements.agentDetails
            noItems == Len(ShownItems) = 0
            noSummary == ~Truthy(Prop(ShownAnalysis.value, "summary"))
        IN  /\ view.status = "noanalysis" <=> (noItems /\ noSummary)
            /\ ~(noItems /\ noSummary) =>
                  /\ view.status = "rendered"
                  /\ noItems <=> view.groups = <<>>
                  /\ noSummary <=> view.summary = ""


\* C20: once the user has applied filters, state.ticker, state.quarter and
\* state.search keep the applied values until the next apply or dataset change,
\* whatever responses of /api/options and /api/rows are processed in between, so
\* that a prev or next request carries the filters of the displayed table.
C20_AppliedFiltersPersist ==
    [][(/\ doc = "dashboard"
        /\ appliedSinceChange
        /\ appliedSinceChange'
        /\ lastEvent'.kind # "applyFilters")
       => (/\ state'.ticker = state.ticker
           /\ state'.quarter = state.quarter
           /\ state'.search = state.search)]_vars


\* C21: in the calls list, whenever no request is in flight, the page number and
\* the page count of the page-info text are those of the request whose rows the
\* table displays, for every sequence of apply, reset, prev and next clicks and
\* every order of the responses.
C21_PageInfoMatchesRows ==
    (doc = "calls" /\ inflight = <<>> /\ callShown # <<>>) =>
        LET data == CallsResponse(callShown)
            size == ParseInt(Get(callShown, "page_size"))
        IN  /\ String(callElements.pageInfo.page) = Get(callShown, "page")
            /\ IsPageCount(callElements.pageInfo.totalPages, data.total, size)
            /\ callElements.pageInfo.total = data.total

====
